---------------------------- MODULE Spec2Model ----------------------------
(***************************************************************************)
(* A model of frapalyzer.FRAPalyzer (src/frapalyzer/frapalyzer.py).        *)
(*                                                                         *)
(* The file read through ND2Reader is the input: its metadata (pixel size, *)
(* ROIs, acquisition loops, num_frames) and its frames.  The analyzer's    *)
(* attributes are set by __init__ (action Construct); the public methods   *)
(* are actions on a constructed analyzer.                                  *)
(*                                                                         *)
(* Numbers.  Python floats are modelled by exact rationals <<n, d>> with   *)
(* d > 0 in lowest terms; NaN is <<0, 0>>.  Array indices are Python's     *)
(* (0-based); a Python list or array a is the sequence whose element       *)
(* a[i] is the TLA+ element a[i + 1].                                      *)
(***************************************************************************)
EXTENDS Integers, Sequences, FiniteSets, TLC

VARIABLES
    \* the opened file (self._file)
    micron_per_pixel,   \* metadata["pixel_microns"]
    frames,             \* frames[t][y][x]: the pixel arrays, t < sizes['t']
    meta_rois,          \* metadata restricted to its key 'rois', if it has it
    loops,              \* metadata['experiment']['loops']
    num_frames,         \* metadata['num_frames']
    \* the analyzer
    pc,                 \* "new" before __init__, "ready" after
    background_roi,
    reference_roi,
    stimulation_roi,
    bleach_time_index,
    timesteps,
    \* calls
    stack,              \* the activations of get_mean_intensity, innermost last
    outcome             \* how the last finished call ended

vars == <<micron_per_pixel, frames, meta_rois, loops, num_frames, pc,
          background_roi, reference_roi, stimulation_roi, bleach_time_index,
          timesteps, stack, outcome>>

file == <<micron_per_pixel, frames, meta_rois, loops, num_frames>>
analyzer == <<pc, background_roi, reference_roi, stimulation_roi,
              bleach_time_index, timesteps>>

-----------------------------------------------------------------------------
(* Bounds of the model *)

MaxLoops == 3
MaxDuration == 4
MaxInterval == 3
MaxFrames == 4

-----------------------------------------------------------------------------
(* Arithmetic *)

Min(a, b) == IF a <= b THEN a ELSE b
Max(a, b) == IF a >= b THEN a ELSE b
Abs(a) == IF a < 0 THEN -a ELSE a

RECURSIVE Gcd(_, _)
Gcd(a, b) == IF b = 0 THEN a ELSE Gcd(b, a % b)

NaN == <<0, 0>>
IsNaN(q) == q[2] = 0

\* the rational n / d, d # 0, in lowest terms with a positive denominator
Rat(n, d) ==
    LET g == Gcd(Abs(n), Abs(d))
        s == IF d < 0 THEN -1 ELSE 1
    IN  <<(s * n) \div g, (s * d) \div g>>

Whole(n) == <<n, 1>>

RatAdd(a, b) ==
    IF IsNaN(a) \/ IsNaN(b) THEN NaN
    ELSE Rat(a[1] * b[2] + b[1] * a[2], a[2] * b[2])

RatSub(a, b) ==
    IF IsNaN(a) \/ IsNaN(b) THEN NaN
    ELSE Rat(a[1] * b[2] - b[1] * a[2], a[2] * b[2])

\* np.divide on floats: x / 0 is inf or nan; every divisor the analyzer
\* forms is a mean of values > 0 or NaN, so only 0 / 0 -> nan is kept
RatDiv(a, b) ==
    IF IsNaN(a) \/ IsNaN(b) \/ b[1] = 0 THEN NaN
    ELSE Rat(a[1] * b[2], a[2] * b[1])

RatLess(a, b) == a[1] * b[2] < b[1] * a[2]
RatLeq(a, b) == a[1] * b[2] <= b[1] * a[2]
RatAbs(a) == <<Abs(a[1]), a[2]>>

\* np.round: round half to even, of n / d with d > 0
RoundHalfEven(n, d) ==
    LET q == n \div d
        r == n % d
    IN  IF 2 * r < d THEN q
        ELSE IF 2 * r > d THEN q + 1
        ELSE IF q % 2 = 0 THEN q ELSE q + 1

\* ceil(n / d), d > 0
Ceil(n, d) == -((-n) \div d)

\* np.arange(start, stop, step) for step > 0
Arange(start, stop, step) ==
    LET n == Max(0, Ceil(stop - start, step))
    IN  [k \in 1..n |-> start + (k - 1) * step]

\* a[:n] for n >= 0
Prefix(a, n) == SubSeq(a, 1, Min(n, Len(a)))

\* a[n:] for n >= 0
Suffix(a, n) == SubSeq(a, Min(n, Len(a)) + 1, Len(a))

-----------------------------------------------------------------------------
(* Timeline: _get_bleach_time_index and _get_timesteps *)

\* the loop walk of _get_bleach_time_index from loop i on, current_index
\* being the rational acc
RECURSIVE BleachWalk(_, _, _)
BleachWalk(ls, i, acc) ==
    IF i > Len(ls) THEN RoundHalfEven(acc[1], acc[2])
    ELSE IF ls[i].stimulation THEN RoundHalfEven(acc[1], acc[2])
    ELSE BleachWalk(ls, i + 1,
                    RatAdd(acc, Rat(ls[i].duration, ls[i].sampling_interval)))

get_bleach_time_index_no_division(ls) ==
    LET RECURSIVE Walk(_, _)
        Walk(i, acc) ==
            IF i > Len(ls) THEN acc
            ELSE IF ls[i].stimulation THEN acc
            ELSE Walk(i + 1, acc + ls[i].duration)
    IN  Walk(1, 0)

get_bleach_time_index(ls) == BleachWalk(ls, 1, Whole(0))

\* the loop walk of _get_timesteps: the concatenated array before truncation
RECURSIVE TimestepsWalk(_, _, _, _)
TimestepsWalk(ls, i, ts, current_time) ==
    IF i > Len(ls) THEN ts
    ELSE IF ls[i].stimulation THEN TimestepsWalk(ls, i + 1, ts, current_time)
    ELSE TimestepsWalk(ls, i + 1,
                       ts \o Arange(current_time, current_time + ls[i].duration,
                                    ls[i].sampling_interval),
                       current_time + ls[i].duration)

get_timesteps_untruncated(ls, n) == TimestepsWalk(ls, 1, <<>>, 0)

get_timesteps(ls, n) == Prefix(TimestepsWalk(ls, 1, <<>>, 0), n)

-----------------------------------------------------------------------------
(* ROIs *)

None == <<>>
\* metadata without the key 'rois'
NoRois == <<>>

\* _get_roi: the first ROI of the type, None without one or without 'rois'
RECURSIVE FirstOfType(_, _, _)
FirstOfType(rois, i, roi_type) ==
    IF i > Len(rois) THEN None
    ELSE IF rois[i].type = roi_type THEN rois[i]
    ELSE FirstOfType(rois, i + 1, roi_type)

get_roi(roi_type) ==
    IF "rois" \notin DOMAIN meta_rois THEN None
    ELSE FirstOfType(meta_rois.rois, 1, roi_type)

-----------------------------------------------------------------------------
(* __init__ *)

NoOutcome == [op |-> "none"]

Construct ==
    /\ pc = "new"
    /\ pc' = "ready"
    /\ background_roi' = get_roi("background")
    /\ reference_roi' = get_roi("reference")
    /\ stimulation_roi' = get_roi("stimulation")
    /\ bleach_time_index' = get_bleach_time_index(loops)
    /\ timesteps' = get_timesteps(loops, num_frames)
    /\ UNCHANGED <<file, stack, outcome>>

\* no call is running and the caller holds no result
Idle ==
    /\ pc = "ready"
    /\ stack = <<>>
    /\ outcome = NoOutcome

\* the caller drops the result or the exception of the call that finished
Forget ==
    /\ pc = "ready"
    /\ stack = <<>>
    /\ outcome # NoOutcome
    /\ outcome' = NoOutcome
    /\ UNCHANGED <<file, analyzer, stack>>

\* the attributes before __init__ has run
Unconstructed ==
    /\ pc = "new"
    /\ background_roi = None
    /\ reference_roi = None
    /\ stimulation_roi = None
    /\ bleach_time_index = -1
    /\ timesteps = <<>>
    /\ stack = <<>>
    /\ outcome = NoOutcome

-----------------------------------------------------------------------------
(* The timeline of every loop list *)

ImagingLoops ==
    [duration : 1..MaxDuration, sampling_interval : 1..MaxInterval,
     stimulation : {FALSE}]

\* a stimulation loop: its duration and interval are read by neither walk
StimulationLoop == [duration |-> 1, sampling_interval |-> 1, stimulation |-> TRUE]

Loops == ImagingLoops \cup {StimulationLoop}

LoopLists == UNION {[1..n -> Loops] : n \in 0..MaxLoops}

InitTimeline ==
    /\ micron_per_pixel = 1
    /\ frames = <<>>
    /\ meta_rois = NoRois
    /\ loops \in LoopLists
    /\ num_frames \in 0..MaxFrames
    /\ Unconstructed

NextTimeline == Construct

SpecTimeline == InitTimeline /\ [][NextTimeline]_vars

\* the number of timestamps the loops describe: ceil(duration / interval)
\* for every imaging loop
RECURSIVE PlannedFrames(_)
PlannedFrames(ls) ==
    IF ls = <<>> THEN 0
    ELSE (IF Head(ls).stimulation THEN 0
          ELSE Ceil(Head(ls).duration, Head(ls).sampling_interval))
         + PlannedFrames(Tail(ls))

HasStimulation(ls) == \E i \in 1..Len(ls) : ls[i].stimulation

\* the summed duration of the imaging loops before the first stimulation loop
RECURSIVE DurationBeforeStimulation(_)
DurationBeforeStimulation(ls) ==
    IF ls = <<>> \/ Head(ls).stimulation THEN 0
    ELSE Head(ls).duration + DurationBeforeStimulation(Tail(ls))

\* C2 as stated: after construction 0 <= bleach_time_index <= num_frames,
\* for every loop list and every num_frames.
C2_BleachIndexWithinFrameCount ==
    pc = "ready" => 0 <= bleach_time_index /\ bleach_time_index <= num_frames

\* C2 amended: after construction 0 <= bleach_time_index <= the number of
\* timestamps the loops describe, so that bleach_time_index <= num_frames
\* whenever the acquisition recorded every frame the loops describe.
C2_BleachIndexWithinPlannedFrames ==
    pc = "ready" =>
        /\ 0 <= bleach_time_index
        /\ bleach_time_index <= PlannedFrames(loops)
        /\ (num_frames >= PlannedFrames(loops) => bleach_time_index <= num_frames)

\* an acquisition that stopped before its stimulation loop
C2_Witness ==
    /\ pc = "ready"
    /\ HasStimulation(loops)
    /\ 0 < num_frames
    /\ num_frames < bleach_time_index
    /\ bleach_time_index < PlannedFrames(loops)

\* C3 as stated: timesteps has exactly num_frames entries, whether the loops
\* describe more frames than were acquired or fewer.
C3_TimestepsLengthIsNumFrames ==
    pc = "ready" => Len(timesteps) = num_frames

\* C3 amended: timesteps has min(num_frames, number of timestamps the loops
\* describe) entries: it is cut to num_frames and never padded.
C3_TimestepsLengthIsMin ==
    pc = "ready" => Len(timesteps) = Min(num_frames, PlannedFrames(loops))

\* loops that describe more frames than were acquired: the array was cut
C3_Witness ==
    /\ pc = "ready"
    /\ 0 < num_frames
    /\ num_frames < PlannedFrames(loops)
    /\ Len(timesteps) = num_frames

\* C4: whenever timesteps[bleach_time_index - 1] and
\* timesteps[bleach_time_index] both exist, the first is smaller than the
\* second, and the frame at bleach_time_index is the first frame after the
\* first stimulation loop: its timestamp is the summed duration of the
\* imaging loops before that loop.
C4_BleachFrameFollowsStimulation ==
    pc = "ready" /\ 1 <= bleach_time_index /\ bleach_time_index < Len(timesteps) =>
        /\ timesteps[bleach_time_index] < timesteps[bleach_time_index + 1]
        /\ HasStimulation(loops) =>
               timesteps[bleach_time_index + 1] = DurationBeforeStimulation(loops)

-----------------------------------------------------------------------------
(* Sampling a ROI: _to_pixel, _get_rect_from_images, _get_*_slice_from_roi *)

ImageSize == 5
MaxMicronPerPixel == 2
MaxMicron == 6
MaxSize == 4

ImageHeight == Len(frames[1])
ImageWidth == Len(frames[1][1])

\* _to_pixel for a whole number of microns: np.round(micron / micron_per_pixel)
to_pixel(micron) == RoundHalfEven(micron, micron_per_pixel)

\* the indices a Python slice lo:hi selects on an axis of length n, in
\* order: a negative bound counts from the end, a bound past an end is cut
SliceBound(b, n) == IF b < 0 THEN Max(b + n, 0) ELSE Min(b, n)

PySlice(lo, hi, n) ==
    LET start == SliceBound(lo, n)
        stop == SliceBound(hi, n)
    IN  [k \in 1..Max(0, stop - start) |-> start + k - 1]

\* _get_rect_from_images(rect), rect = (left, right, bottom, top): for every
\* t < sizes['t'] the rows rect[2]:rect[3] and columns rect[0]:rect[1] of
\* frame t, as floats
get_rect_from_images(rect) ==
    LET rows == PySlice(rect[3], rect[4], ImageHeight)
        cols == PySlice(rect[1], rect[2], ImageWidth)
    IN  [t \in 1..Len(frames) |->
            [i \in 1..Len(rows) |->
                [j \in 1..Len(cols) |->
                    Whole(frames[t][rows[i] + 1][cols[j] + 1])]]]

\* center +- radius, in pixels
CircleCoordinates(roi) ==
    LET center == <<to_pixel(roi.positions[1]), to_pixel(roi.positions[2])>>
        radius == to_pixel(roi.sizes[1])
    IN  <<center[1] - radius, center[1] + radius,
          center[2] - radius, center[2] + radius>>

\* lines 200-202: NaN where the mask holds; x, y are the 0-based indices
\* along the first and the second axis of a frame of rect
MaskOutsideCircle(rect, radius) ==
    LET mask(x, y) ==
            (x - radius) * (x - radius) + (y - radius) * (y - radius)
                > radius * radius
    IN  [t \in 1..Len(rect) |->
            [i \in 1..Len(rect[t]) |->
                [j \in 1..Len(rect[t][i]) |->
                    IF mask(i - 1, j - 1) THEN NaN ELSE rect[t][i][j]]]]

get_circular_slice_from_roi(roi) ==
    MaskOutsideCircle(get_rect_from_images(CircleCoordinates(roi)),
                      to_pixel(roi.sizes[1]))

\* np.round(position -+ size / 2): the microns are not divided by
\* micron_per_pixel
RectangleCoordinates(roi) ==
    <<RoundHalfEven(2 * roi.positions[1] - roi.sizes[1], 2),
      RoundHalfEven(2 * roi.positions[1] + roi.sizes[1], 2),
      RoundHalfEven(2 * roi.positions[2] - roi.sizes[2], 2),
      RoundHalfEven(2 * roi.positions[2] + roi.sizes[2], 2)>>

get_rectangular_slice_from_roi(roi) ==
    get_rect_from_images(RectangleCoordinates(roi))

Returned(v) == [status |-> "returned", value |-> v]
Raised(e) == [status |-> "raised", error |-> e]

\* a mutant: a shape that is not supported is sampled as a rectangle
get_slice_from_roi_default_rectangle(roi) ==
    IF roi.shape = "circle" THEN Returned(get_circular_slice_from_roi(roi))
    ELSE Returned(get_rectangular_slice_from_roi(roi))

get_slice_from_roi(roi) ==
    IF roi.shape = "circle" THEN Returned(get_circular_slice_from_roi(roi))
    ELSE IF roi.shape = "rectangle"
    THEN Returned(get_rectangular_slice_from_roi(roi))
    ELSE Raised("InvalidROIError")

\* the ROIs handed to the sampler
Positions == (0..MaxMicron) \X (0..MaxMicron)

SampledRois ==
    [type : {"stimulation"}, shape : {"circle"},
     positions : Positions, sizes : (2..MaxSize) \X {0}]
    \cup [type : {"stimulation"}, shape : {"rectangle"},
          positions : Positions, sizes : (1..MaxSize) \X (1..MaxSize)]
    \cup [type : {"stimulation"}, shape : {"polygon"},
          positions : {<<0, 0>>}, sizes : {<<0, 0>>}]

\* a call of _get_slice_from_roi on a ROI that passed _check_roi
GetSliceFromRoi ==
    /\ Idle
    /\ \E roi \in SampledRois :
           outcome' = get_slice_from_roi(roi) @@
                          [op |-> "_get_slice_from_roi", roi |-> roi]
    /\ UNCHANGED <<file, analyzer, stack>>

\* frames whose pixel values name their pixel: frame t holds at (y, x) the
\* value t * height * width + y * width + x + 1
NamedFrames(n, h, w) ==
    [t \in 1..n |-> [y \in 1..h |-> [x \in 1..w |->
        (t - 1) * h * w + (y - 1) * w + x]]]

InitSlice ==
    /\ micron_per_pixel \in 1..MaxMicronPerPixel
    /\ frames \in {NamedFrames(n, ImageSize, ImageSize) : n \in 1..2}
    /\ meta_rois = NoRois
    /\ loops = <<>>
    /\ num_frames = Len(frames)
    /\ Unconstructed

NextSlice == Construct \/ GetSliceFromRoi \/ Forget

SpecSlice == InitSlice /\ [][NextSlice]_vars

\* the values of the valid (not NaN) pixels of one sampled frame
ValidValues(img) ==
    {img[i][j][1] : <<i, j>> \in
        {p \in (1..Len(img)) \X (1..ImageSize) :
            p[2] <= Len(img[p[1]]) /\ ~IsNaN(img[p[1]][p[2]])}}

SliceDone(shape) ==
    /\ outcome.op = "_get_slice_from_roi"
    /\ outcome.roi.shape = shape

\* C6: for every circle ROI and every frame, the valid pixels of the sample
\* are exactly the image pixels whose distance from the center is <= radius
\* (center and radius in pixels).
C6_CircleFootprintIsDisk ==
    SliceDone("circle") =>
        /\ outcome.status = "returned"
        /\ LET cx == to_pixel(outcome.roi.positions[1])
               cy == to_pixel(outcome.roi.positions[2])
               radius == to_pixel(outcome.roi.sizes[1])
               disk == {p \in (0..ImageWidth - 1) \X (0..ImageHeight - 1) :
                           (p[1] - cx) * (p[1] - cx) + (p[2] - cy) * (p[2] - cy)
                               <= radius * radius}
           IN  \A t \in 1..Len(frames) :
                   ValidValues(outcome.value[t])
                       = {frames[t][p[2] + 1][p[1] + 1] : p \in disk}

\* C7: for every rectangle ROI, the rows and columns sampled are the micron
\* interval [center - size/2, center + size/2] converted with _to_pixel
\* (round(micron / micron_per_pixel)) and cut to the image; the upper bound
\* is taken exclusive, as a slice takes it.
C7_RectangleBoundsInPixels ==
    SliceDone("rectangle") =>
        /\ outcome.status = "returned"
        /\ LET roi == outcome.roi
               lo(k) == RoundHalfEven(2 * roi.positions[k] - roi.sizes[k],
                                      2 * micron_per_pixel)
               hi(k) == RoundHalfEven(2 * roi.positions[k] + roi.sizes[k],
                                      2 * micron_per_pixel)
               xs == {x \in 0..ImageWidth - 1 : lo(1) <= x /\ x < hi(1)}
               ys == {y \in 0..ImageHeight - 1 : lo(2) <= y /\ y < hi(2)}
           IN  \A t \in 1..Len(frames) :
                   ValidValues(outcome.value[t])
                       = {frames[t][y + 1][x + 1] : x \in xs, y \in ys}

-----------------------------------------------------------------------------
(* get_mean_intensity *)

\* _check_roi: TRUE when it returns, FALSE when it raises InvalidROIError
check_roi(roi) == roi # None /\ "shape" \in DOMAIN roi

RECURSIVE Sum(_)
Sum(q) == IF q = <<>> THEN Whole(0) ELSE RatAdd(Head(q), Sum(Tail(q)))

RECURSIVE Concat(_)
Concat(qs) == IF qs = <<>> THEN <<>> ELSE Head(qs) \o Concat(Tail(qs))

\* the elements of a (frames, rows, columns) array in one sequence
Flatten(image) == Concat([t \in 1..Len(image) |-> Concat(image[t])])

\* np.subtract(image, background)
Subtract(image, background) ==
    [t \in 1..Len(image) |->
        [i \in 1..Len(image[t]) |->
            [j \in 1..Len(image[t][i]) |->
                RatSub(image[t][i][j], background)]]]

\* image[np.isnan(image)] = -1; image[image <= 0] = np.nan
OnlyGtZero(image) ==
    LET keep(v) == IF IsNaN(v) \/ v[1] <= 0 THEN NaN ELSE v
    IN  [t \in 1..Len(image) |->
            [i \in 1..Len(image[t]) |->
                [j \in 1..Len(image[t][i]) |-> keep(image[t][i][j])]]]

\* np.nanmean of a 1-d array: the mean of its entries that are not NaN, NaN
\* without one
NanMean(q) ==
    LET valid == SelectSeq(q, LAMBDA v : ~IsNaN(v))
    IN  IF valid = <<>> THEN NaN ELSE RatDiv(Sum(valid), Whole(Len(valid)))

\* np.nanmean(np.nanmean(image, axis=2), axis=1) with keep_time: per frame,
\* the mean over the rows of the mean of each row; np.nanmean(image) without
Reduce(image, keep_time) ==
    IF keep_time
    THEN [t \in 1..Len(image) |->
             NanMean([i \in 1..Len(image[t]) |-> NanMean(image[t][i])])]
    ELSE NanMean(Flatten(image))

\* lines 157-169: what get_mean_intensity makes of the sampled image
MeanOfSlice(image, background, keep_time, subtract_background, only_gt_zero) ==
    LET subtracted == IF subtract_background THEN Subtract(image, background)
                      ELSE image
        masked == IF only_gt_zero THEN OnlyGtZero(subtracted) ELSE subtracted
    IN  Reduce(masked, keep_time)

\* a mutant: the nested call subtracts the background as well
BackgroundCallSubtracting ==
    [roi |-> background_roi, keep_time |-> FALSE, subtract_background |-> TRUE,
     only_gt_zero |-> TRUE, pc |-> "check", background |-> NaN]

\* the activation lines 158-159 start
BackgroundCall ==
    [roi |-> background_roi, keep_time |-> FALSE, subtract_background |-> FALSE,
     only_gt_zero |-> TRUE, pc |-> "check", background |-> NaN]

\* the depth at which the interpreter ends a recursion with RecursionError
RecursionLimit == 4

Top == stack[Len(stack)]
SetTop(f) == [stack EXCEPT ![Len(stack)] = f]

\* the exception leaves every activation: no caller of get_mean_intensity
\* in the class catches InvalidROIError
Unwind(error) ==
    /\ stack' = <<>>
    /\ outcome' = Raised(error) @@
                  [op |-> "get_mean_intensity", roi |-> stack[1].roi,
                   keep_time |-> stack[1].keep_time,
                   subtract_background |-> stack[1].subtract_background,
                   only_gt_zero |-> stack[1].only_gt_zero]

\* a caller calls get_mean_intensity(roi, keep_time, subtract_background,
\* only_gt_zero)
CallGetMeanIntensity ==
    /\ Idle
    /\ \E roi \in {background_roi, reference_roi, stimulation_roi, None},
          keep_time \in BOOLEAN, subtract_background \in BOOLEAN,
          only_gt_zero \in BOOLEAN :
           stack' = <<[roi |-> roi, keep_time |-> keep_time,
                       subtract_background |-> subtract_background,
                       only_gt_zero |-> only_gt_zero, pc |-> "check",
                       background |-> NaN]>>
    /\ UNCHANGED <<file, analyzer, outcome>>

\* line 153
CheckRoi ==
    /\ stack # <<>>
    /\ Top.pc = "check"
    /\ IF check_roi(Top.roi)
       THEN stack' = SetTop([Top EXCEPT !.pc = "slice"]) /\ UNCHANGED outcome
       ELSE Unwind("InvalidROIError")
    /\ UNCHANGED <<file, analyzer>>

\* line 155
SliceRoi ==
    /\ stack # <<>>
    /\ Top.pc = "slice"
    /\ IF get_slice_from_roi(Top.roi).status = "returned"
       THEN /\ stack' = SetTop([Top EXCEPT !.pc =
                   IF Top.subtract_background THEN "background" ELSE "reduce"])
            /\ UNCHANGED outcome
       ELSE Unwind(get_slice_from_roi(Top.roi).error)
    /\ UNCHANGED <<file, analyzer>>

\* lines 157-159: the nested call for the background ROI
CallBackground ==
    /\ stack # <<>>
    /\ Top.pc = "background"
    /\ IF Len(stack) < RecursionLimit
       THEN /\ stack' = Append(SetTop([Top EXCEPT !.pc = "subtract"]),
                               BackgroundCall)
            /\ UNCHANGED outcome
       ELSE Unwind("RecursionError")
    /\ UNCHANGED <<file, analyzer>>

\* lines 160-169 of the innermost activation: it returns its mean, to the
\* activation that waits for the background or to the caller
ReturnMean ==
    /\ stack # <<>>
    /\ Top.pc = "reduce"
    /\ LET value == MeanOfSlice(get_slice_from_roi(Top.roi).value,
                                Top.background, Top.keep_time,
                                Top.subtract_background, Top.only_gt_zero)
       IN  IF Len(stack) > 1
           THEN /\ stack' = [k \in 1..Len(stack) - 1 |->
                        IF k = Len(stack) - 1
                        THEN [stack[k] EXCEPT !.pc = "reduce",
                                              !.background = value]
                        ELSE stack[k]]
                /\ UNCHANGED outcome
           ELSE /\ stack' = <<>>
                /\ outcome' = Returned(value) @@
                       [op |-> "get_mean_intensity", roi |-> Top.roi,
                        keep_time |-> Top.keep_time,
                        subtract_background |-> Top.subtract_background,
                        only_gt_zero |-> Top.only_gt_zero]
    /\ UNCHANGED <<file, analyzer>>

\* get_mean_intensity as the other methods call it: the whole call
\* lines 155-169 for the sampling that ended as image and, with
\* subtract_background, the nested call that ended as background
MeanOfSampled(image, background, keep_time, subtract_background, only_gt_zero) ==
    IF image.status = "raised" THEN image
    ELSE IF ~subtract_background
    THEN Returned(MeanOfSlice(image.value, NaN, keep_time, FALSE,
                              only_gt_zero))
    ELSE IF background.status = "raised" THEN background
    ELSE Returned(MeanOfSlice(image.value, background.value, keep_time, TRUE,
                              only_gt_zero))

\* get_mean_intensity(self.background_roi, keep_time=False,
\* subtract_background=False, only_gt_zero=True)
BackgroundMean ==
    IF ~check_roi(background_roi) THEN Raised("InvalidROIError")
    ELSE MeanOfSampled(get_slice_from_roi(background_roi), Returned(NaN),
                       FALSE, FALSE, TRUE)

get_mean_intensity(roi, keep_time, subtract_background, only_gt_zero) ==
    IF ~check_roi(roi) THEN Raised("InvalidROIError")
    ELSE MeanOfSampled(get_slice_from_roi(roi), BackgroundMean, keep_time,
                       subtract_background, only_gt_zero)

-----------------------------------------------------------------------------
(* get_normalized_stimulation *)

HasNaN(q) == \E k \in 1..Len(q) : IsNaN(q[k])

\* np.mean of a 1-d array: NaN for an empty array or one that holds a NaN
Mean(q) ==
    IF q = <<>> \/ HasNaN(q) THEN NaN ELSE RatDiv(Sum(q), Whole(Len(q)))

\* np.divide(q, np.mean(pre_bleach))
DivideByMean(q, pre_bleach) ==
    [t \in 1..Len(q) |-> RatDiv(q[t], Mean(pre_bleach))]

\* np.divide(stim_norm, ref_norm)
DivideElementwise(stim_norm, ref_norm) ==
    [t \in 1..Len(stim_norm) |-> RatDiv(stim_norm[t], ref_norm[t])]

\* lines 59-71 for the two calls of get_mean_intensity that ended as
\* reference and stimulated; the first is made first
Normalize(reference, stimulated) ==
    IF reference.status = "raised" THEN reference
    ELSE IF stimulated.status = "raised" THEN stimulated
    ELSE Returned(DivideElementwise(
             DivideByMean(stimulated.value,
                          Prefix(stimulated.value, bleach_time_index)),
             DivideByMean(reference.value,
                          Prefix(reference.value, bleach_time_index))))

get_normalized_stimulation ==
    Normalize(get_mean_intensity(reference_roi, TRUE, TRUE, TRUE),
              get_mean_intensity(stimulation_roi, TRUE, TRUE, TRUE))

GetNormalizedStimulation ==
    /\ Idle
    /\ outcome' = get_normalized_stimulation @@
                  [op |-> "get_normalized_stimulation"]
    /\ UNCHANGED <<file, analyzer, stack>>

-----------------------------------------------------------------------------
(* fit_exponential_recovery *)

\* np.max of a 1-d array that is not empty: NaN when it holds a NaN
NpMax(q) ==
    IF HasNaN(q) THEN NaN
    ELSE q[CHOOSE k \in 1..Len(q) : \A m \in 1..Len(q) : RatLeq(q[m], q[k])]

\* np.argmin of a 1-d array that is not empty, 0-based: the first NaN when
\* it holds one, the first smallest entry otherwise
NpArgMin(q) ==
    IF HasNaN(q)
    THEN (CHOOSE k \in 1..Len(q) :
              IsNaN(q[k]) /\ \A m \in 1..k - 1 : ~IsNaN(q[m])) - 1
    ELSE (CHOOSE k \in 1..Len(q) :
              /\ \A m \in 1..Len(q) : RatLeq(q[k], q[m])
              /\ \A m \in 1..k - 1 : RatLess(q[k], q[m])) - 1

\* line 87: the index of the sample closest to recovery / 2
HalfTimeIndex(recovery_data, recovery) ==
    NpArgMin([k \in 1..Len(recovery_data) |->
        RatAbs(RatSub(recovery_data[k], RatDiv(recovery, Whole(2))))])

\* least_squares, a solver outside the repository: it ends with success or
\* without, or raises.  It raises ValueError when the residual at the
\* initial point is not finite; what it does with t and y of different
\* lengths is left open.
SolverEndings(x0, t, y) ==
    IF Len(t) # Len(y) THEN {"success", "failure", "raises"}
    ELSE IF IsNaN(x0[1]) \/ HasNaN(y)
            \/ (x0[2] = 0 /\ \E k \in 1..Len(t) : t[k] = 0)
    THEN {"raises"}
    ELSE {"success", "failure"}

\* lines 86-98: the call of the solver for the post-bleach data
\* recovery_data, which is not empty, and its maximum recovery
SolverCall(recovery_data, recovery, half_time_index) ==
    IF half_time_index < Len(timesteps)
    THEN Returned([x0 |-> <<recovery, timesteps[half_time_index + 1]>>,
                   t |-> Suffix(timesteps, bleach_time_index),
                   y |-> recovery_data])
    ELSE IF bleach_time_index < Len(timesteps)
    THEN Returned([x0 |-> <<recovery, timesteps[bleach_time_index + 1]>>,
                   t |-> Suffix(timesteps, bleach_time_index),
                   y |-> recovery_data])
    ELSE Raised("IndexError")

GuessAndCall(recovery_data, recovery) ==
    SolverCall(recovery_data, recovery,
               HalfTimeIndex(recovery_data, recovery))

\* lines 83-98: np.max raises ValueError for an empty array
RecoveryOf(recovery_data) ==
    IF recovery_data = <<>> THEN Raised("ValueError")
    ELSE GuessAndCall(recovery_data, NpMax(recovery_data))

\* lines 78-98 for the normalized signal that get_normalized_stimulation
\* ended with
FitSetupOf(data) ==
    IF data.status = "raised" THEN data
    ELSE RecoveryOf(Suffix(data.value, bleach_time_index))

FitSetup == FitSetupOf(get_normalized_stimulation)

\* lines 98-104 for one ending of the solver
FitResult(call, ending) ==
    [op |-> "fit_exponential_recovery", least_squares |-> call] @@
    (IF ending = "raises" THEN Raised("ValueError")
     ELSE IF ending = "success" THEN Returned([refined |-> TRUE])
     ELSE Returned([refined |-> FALSE, recovery |-> call.x0[1],
                    half_time |-> call.x0[2]]))

\* the ways fit_exponential_recovery can end
FitOutcomes(setup) ==
    IF setup.status = "raised"
    THEN {setup @@ [op |-> "fit_exponential_recovery"]}
    ELSE {FitResult(setup.value, ending) : ending \in
             SolverEndings(setup.value.x0, setup.value.t, setup.value.y)}

FitExponentialRecovery ==
    /\ Idle
    /\ outcome' \in FitOutcomes(FitSetup)
    /\ UNCHANGED <<file, analyzer, stack>>

NextAnalysis ==
    \/ Construct
    \/ CallGetMeanIntensity
    \/ CheckRoi
    \/ SliceRoi
    \/ CallBackground
    \/ ReturnMean
    \/ GetNormalizedStimulation
    \/ FitExponentialRecovery
    \/ Forget

-----------------------------------------------------------------------------
(* The files analysed *)

MaxPixel == 3
FrameCount == 2

\* a frame of 2 x 6 pixels holds three regions of 2 x 2 pixels, one per
\* role, and every ROI of a role lies on the region of its role
RoleCenter(type) ==
    CASE type = "background" -> <<1, 1>>
      [] type = "reference" -> <<3, 1>>
      [] type = "stimulation" -> <<5, 1>>

RoleRoi(type, shape) ==
    IF shape = "shapeless"
    THEN [type |-> type, positions |-> RoleCenter(type), sizes |-> <<2, 2>>]
    ELSE [type |-> type, shape |-> shape, positions |-> RoleCenter(type),
          sizes |-> IF shape = "circle" THEN <<1, 0>> ELSE <<2, 2>>]

\* metadata['rois'] with, per role, no ROI or one of the given shape
RoiList(background, reference, stimulation) ==
    LET entry(type, shape) ==
            IF shape = "absent" THEN <<>> ELSE <<RoleRoi(type, shape)>>
    IN  entry("background", background) \o entry("reference", reference)
            \o entry("stimulation", stimulation)

RoiShapes == {"absent", "shapeless", "polygon", "circle", "rectangle"}

RoiLists ==
    {[rois |-> RoiList(b, r, s)] :
        b \in RoiShapes, r \in RoiShapes, s \in RoiShapes} \cup {NoRois}

PatternFrames(n, a, b, c, e) ==
    [t \in 1..n |-> [y \in 1..2 |-> [x \in 1..6 |->
        (a * (x - 1) + b * (y - 1) + c * (t - 1) + e) % (MaxPixel + 1)]]]

\* one pre-bleach frame, the stimulation, and the other frames
PlainLoops(n) ==
    <<[duration |-> 1, sampling_interval |-> 1, stimulation |-> FALSE],
      StimulationLoop,
      [duration |-> n - 1, sampling_interval |-> 1, stimulation |-> FALSE]>>

\* every combination of present, absent and malformed ROIs, on one image
InitRois ==
    /\ micron_per_pixel = 1
    /\ frames = PatternFrames(FrameCount, 1, 2, 1, 1)
    /\ meta_rois \in RoiLists
    /\ loops = PlainLoops(FrameCount)
    /\ num_frames = FrameCount
    /\ Unconstructed

SpecRois == InitRois /\ [][NextAnalysis]_vars

\* circle and rectangle ROIs on every image of a family
InitIntensity ==
    /\ micron_per_pixel = 1
    /\ frames \in {PatternFrames(FrameCount, a, b, c, e) :
                      a \in 0..MaxPixel, b \in 0..MaxPixel, c \in 0..1,
                      e \in 0..MaxPixel}
    /\ meta_rois \in {[rois |-> RoiList(b, s, s)] :
                          b \in {"circle", "rectangle"},
                          s \in {"circle", "rectangle"}}
    /\ loops = PlainLoops(FrameCount)
    /\ num_frames = FrameCount
    /\ Unconstructed

SpecIntensity == InitIntensity /\ [][NextAnalysis]_vars

\* a frame whose regions are uniform
RegionFrame(background, reference, stimulation) ==
    [y \in 1..2 |-> [x \in 1..6 |->
        IF x <= 2 THEN background ELSE IF x <= 4 THEN reference
        ELSE stimulation]]

\* recordings of 1..MaxFrames frames: background 1, a reference that
\* fades after the first frame, any stimulation signal
Recordings ==
    UNION {{[t \in 1..n |-> RegionFrame(1, IF t > 1 THEN 3 ELSE 4, signal[t])] :
               signal \in [1..n -> 1..MaxPixel]} :
           n \in 1..MaxFrames}

\* timelines of at most one imaging loop before and after the stimulation
RecoveryLoopLists ==
    {<<>>} \cup {<<a>> : a \in ImagingLoops}
        \cup {<<a, StimulationLoop>> : a \in ImagingLoops}
        \cup {<<StimulationLoop, a>> : a \in ImagingLoops}
        \cup {<<a, StimulationLoop, b>> : a \in ImagingLoops, b \in ImagingLoops}

InitRecovery ==
    /\ micron_per_pixel = 1
    /\ frames \in Recordings
    /\ meta_rois = [rois |-> RoiList("rectangle", "rectangle", "rectangle")]
    /\ loops \in RecoveryLoopLists
    /\ num_frames = Len(frames)
    /\ Unconstructed

NextRecovery ==
    Construct \/ GetNormalizedStimulation \/ FitExponentialRecovery \/ Forget

SpecRecovery == InitRecovery /\ [][NextRecovery]_vars

-----------------------------------------------------------------------------
(* Claims on ROIs and means *)

InvalidRoi(roi) ==
    \/ roi = None
    \/ "shape" \notin DOMAIN roi
    \/ roi.shape \notin {"circle", "rectangle"}

RaisedInvalidRoi ==
    /\ outcome.status = "raised"
    /\ outcome.error = "InvalidROIError"
    /\ "value" \notin DOMAIN outcome

\* C1: get_mean_intensity raises InvalidROIError and returns nothing when
\* the ROI passed is None, has no shape or has an unsupported shape, and
\* when subtract_background is true and the background ROI is such a ROI;
\* so do get_normalized_stimulation and fit_exponential_recovery when the
\* reference, stimulation or background ROI is.
C1_InvalidRoiRaises ==
    /\ outcome.op = "get_mean_intensity"
           /\ (\/ InvalidRoi(outcome.roi)
               \/ outcome.subtract_background /\ InvalidRoi(background_roi))
       => RaisedInvalidRoi
    /\ outcome.op \in {"get_normalized_stimulation", "fit_exponential_recovery"}
           /\ (\/ InvalidRoi(reference_roi)
               \/ InvalidRoi(stimulation_roi)
               \/ InvalidRoi(background_roi))
       => RaisedInvalidRoi

\* a call on a sound ROI that met an unsupported background ROI
C1_Witness ==
    /\ outcome.op = "get_mean_intensity"
    /\ ~InvalidRoi(outcome.roi)
    /\ outcome.subtract_background
    /\ background_roi # None
    /\ "shape" \in DOMAIN background_roi
    /\ background_roi.shape = "polygon"
    /\ RaisedInvalidRoi

\* the depth of the recursion is at most one: below the caller's activation
\* there is at most the one for the background ROI, made with
\* subtract_background = False, which starts no activation of its own
RecursionDepthAtMostOne ==
    /\ Len(stack) <= 2
    /\ Len(stack) = 2 =>
          /\ stack[1].pc = "subtract"
          /\ stack[1].subtract_background
          /\ stack[2].roi = background_roi
          /\ ~stack[2].subtract_background
          /\ stack[2].pc \in {"check", "slice", "reduce"}
    /\ outcome.op = "get_mean_intensity" /\ outcome.status = "raised"
          => outcome.error # "RecursionError"

\* the steps an activation has left, those of the nested call it has yet
\* to make included
StepsLeft(f) ==
    CASE f.pc = "check" -> IF f.subtract_background THEN 7 ELSE 3
      [] f.pc = "slice" -> IF f.subtract_background THEN 6 ELSE 2
      [] f.pc = "background" -> 5
      [] f.pc = "subtract" -> 1
      [] f.pc = "reduce" -> 1

RECURSIVE Rank(_)
Rank(st) == IF st = <<>> THEN 0 ELSE StepsLeft(Head(st)) + Rank(Tail(st))

\* C10: every call of get_mean_intensity ends, and its recursion depth is
\* at most one: the nested call for the background ROI is made with
\* subtract_background = False and makes no nested call, also when the ROI
\* passed is the background ROI.  The call ends because the innermost
\* activation can always take its next step and every step lowers the
\* number of steps left.
C10_TerminatesAtDepthOne ==
    /\ []RecursionDepthAtMostOne
    /\ [](stack # <<>> => Top.pc \in {"check", "slice", "background", "reduce"})
    /\ [][stack # <<>> => Rank(stack') < Rank(stack)]_vars

\* the caller passed the background ROI and the nested call is about to
\* return
C10_Witness ==
    /\ Len(stack) = 2
    /\ stack[1].roi = background_roi
    /\ stack[1].roi.type = "background"
    /\ stack[2].pc = "reduce"

\* the pixels of frame t of the sample of a ROI that count: inside the
\* footprint and > 0 after the subtraction of the background mean
ValidPixels(roi, subtract_background, t) ==
    LET sample == Concat(get_slice_from_roi(roi).value[t])
        pixels == IF subtract_background
                  THEN [k \in 1..Len(sample) |->
                           RatSub(sample[k], BackgroundMean.value)]
                  ELSE sample
    IN  SelectSeq(pixels, LAMBDA v : ~IsNaN(v) /\ v[1] > 0)

\* C5: with keep_time and only_gt_zero the result holds, for each frame in
\* order, the sum of the frame's valid pixels divided by their number, and
\* NaN for a frame without a valid pixel.
C5_MeanOverValidPixels ==
    /\ outcome.op = "get_mean_intensity"
    /\ outcome.status = "returned"
    /\ outcome.keep_time
    /\ outcome.only_gt_zero
    => /\ Len(outcome.value) = Len(frames)
       /\ \A t \in 1..Len(frames) :
              LET valid == ValidPixels(outcome.roi, outcome.subtract_background, t)
              IN  outcome.value[t] =
                      IF valid = <<>> THEN NaN
                      ELSE RatDiv(Sum(valid), Whole(Len(valid)))

-----------------------------------------------------------------------------
(* Claims on the fit *)

SolverCalled ==
    /\ outcome.op = "fit_exponential_recovery"
    /\ "least_squares" \in DOMAIN outcome

\* C8: the times given to the solver are relative to the bleach,
\* timesteps[bleach_time_index + k] - timesteps[bleach_time_index], and the
\* half-time guess is that time for the post-bleach sample closest to half
\* the maximum.
C8_FitInBleachRelativeTime ==
    SolverCalled /\ bleach_time_index < Len(timesteps) =>
        LET call == outcome.least_squares
            t_bleach == timesteps[bleach_time_index + 1]
            post == Suffix(timesteps, bleach_time_index)
            k == HalfTimeIndex(call.y, call.x0[1])
        IN  /\ call.t = [i \in 1..Len(post) |-> post[i] - t_bleach]
            /\ k < Len(post) => call.x0[2] = post[k + 1] - t_bleach

\* C9: with an empty post-bleach segment (bleach_time_index >= number of
\* frames) fit_exponential_recovery does not raise: it returns a result.
C9_EmptyPostBleachReturns ==
    /\ outcome.op = "fit_exponential_recovery"
    /\ bleach_time_index >= Len(frames)
    => outcome.status = "returned"

=============================================================================
